---- MODULE Spec2Model ----
(***************************************************************************)
(* CanvasComponent of ng-image-canvas: the image registry and the pointer  *)
(* state machine (drop, pointer-down/move/up, Shift tracking, editing      *)
(* toggle, getImages/setImages), modelled handler by handler.              *)
(*                                                                         *)
(* JavaScript numbers are modelled as exact rationals [n, d] in lowest     *)
(* terms (d > 0), because heights are produced by divisions                *)
(* (img.height / img.width * 100 and newWidth / aspectRatio).              *)
(***************************************************************************)
EXTENDS Integers, Sequences, FiniteSets, TLC

----------------------------------------------------------------------------
(* Numbers *)

Abs(i) == IF i < 0 THEN -i ELSE i

RECURSIVE Gcd(_, _)
Gcd(a, b) == IF b = 0 THEN a ELSE Gcd(b, a % b)

\* the rational n/d in lowest terms with a positive denominator (d # 0)
Num(n, d) ==
  LET g == Gcd(Abs(n), Abs(d))
      s == IF d < 0 THEN -1 ELSE 1
  IN  [n |-> s * (n \div g), d |-> s * (d \div g)]

Number(i) == [n |-> i, d |-> 1]

Add(a, b) == Num(a.n * b.d + b.n * a.d, a.d * b.d)
Sub(a, b) == Num(a.n * b.d - b.n * a.d, a.d * b.d)
Mul(a, b) == Num(a.n * b.n, a.d * b.d)
\* a / b for b # 0 (no reachable state divides by zero: sizes stay positive)
Div(a, b) == Num(a.n * b.d, a.d * b.n)
Le(a, b)  == a.n * b.d <= b.n * a.d
Lt(a, b)  == a.n * b.d < b.n * a.d
Ge(a, b)  == Le(b, a)

MathMax(a, b) == IF Le(a, b) THEN b ELSE a
MathMin(a, b) == IF Le(a, b) THEN a ELSE b

\* an optional field that was never assigned
undefined == [n |-> 0, d |-> 0]

\* (v || 0): undefined and 0 are falsy
OrZero(v) == IF v = undefined \/ v.n = 0 THEN Number(0) ELSE v

----------------------------------------------------------------------------
(* Component inputs and literals *)

width == 800
height == 600
resizeHandleSize == 10
closeButtonSize == 20
\* Math.max(10, ...) in onMouseMove
MinSize == 10
\* the fallback width of a dropped image that does not fit
FallbackWidth == 100

\* selectedImageIndex = null
null == -2
\* what findIndex returns when no element matches
NotFound == -1

----------------------------------------------------------------------------
(* Bounds of the exploration *)

\* at most MaxDrops files are dropped in a run
MaxDrops == 2
\* at most MaxMoves pointer-move events are dispatched in a run
MaxMoves == 2

\* the positions pointer-down events carry: over the body <<5, 5>>, the close
\* button <<45, 5>> and the resize handle <<45, 45>> of a dropped 50x50 image,
\* and over the resize handle <<495, 235>> of a dropped 500x240 one
Pointers == {<<5, 5>>, <<45, 5>>, <<45, 45>>, <<495, 235>>}
\* the positions pointer-move events carry: near the origin and off the surface
MoveTargets == {<<5, 5>>, <<850, 650>>}

\* the files a drop can carry, named by the decoded bitmap's natural size
Files == {"50x50", "500x1200"}
\* the files dropped when only drops and their decodes are explored: bitmaps
\* that fit the surface, that exceed its width, its height, or both
PlacementFiles ==
  {"50x50", "800x600", "500x1200", "100x700", "1000x500", "1000x1500"}
naturalWidth(f) ==
  CASE f = "50x50" -> 50 [] f = "800x600" -> 800 [] f = "500x1200" -> 500
    [] f = "100x700" -> 100 [] f = "1000x500" -> 1000 [] f = "1000x1500" -> 1000
naturalHeight(f) ==
  CASE f = "50x50" -> 50 [] f = "800x600" -> 600 [] f = "500x1200" -> 1200
    [] f = "100x700" -> 700 [] f = "1000x500" -> 500 [] f = "1000x1500" -> 1500

\* what a drop event can carry: no dataTransfer, an empty file list, or a file
DropPayloads == {"noDataTransfer", "noFiles"} \cup Files

Keys == {"Shift", "a"}

\* the image the host builds in the usage example (a 100x100 image at the origin)
hostImage ==
  [img |-> 0, x |-> [n |-> 0, d |-> 1], y |-> [n |-> 0, d |-> 1],
   width |-> [n |-> 100, d |-> 1], height |-> [n |-> 100, d |-> 1],
   isResizing |-> FALSE,
   initialWidth |-> [n |-> 0, d |-> 0], initialHeight |-> [n |-> 0, d |-> 0]]

\* the arrays the host passes to setImages
HostArrays == {<<>>, <<hostImage>>}

----------------------------------------------------------------------------
(* State *)

VARIABLES
  editing,             \* @Input() editing
  images,              \* private images: DraggableImage[]
  selectedImageIndex,  \* number | null (0-based, NotFound after a failed findIndex)
  offsetX, offsetY,    \* pointer-to-image offset captured at pointer-down
  isDragging,
  isShiftPressed,
  pending,             \* the drops whose decode (reader.onload, img.onload) is in flight
  imagesChange,        \* the payloads imagesChange emitted during the last handler
  error,               \* the last handler threw a TypeError
  ev,                  \* the handler that ran last
  moves,               \* pointer-move events dispatched so far
  drops,               \* files dropped so far
  unreported           \* a pointer-move of the gesture in progress (or just ended)
                       \* changed an image and nothing was emitted since

vars == <<editing, images, selectedImageIndex, offsetX, offsetY, isDragging,
          isShiftPressed, pending, imagesChange, error, ev, moves, drops, unreported>>


\* the event a handler was called with: its name and, for the mouse events that
\* read them, event.offsetX and event.offsetY; onDrop, setImages and getImages
\* add what the drop carried, the argument and the returned value
Event(op, px, py) == [op |-> op, offsetX |-> px, offsetY |-> py]

Init ==
  /\ editing = TRUE
  /\ images = <<>>
  /\ selectedImageIndex = null
  /\ offsetX = Number(0)
  /\ offsetY = Number(0)
  /\ isDragging = FALSE
  /\ isShiftPressed = FALSE
  /\ pending = <<>>
  /\ imagesChange = <<>>
  /\ error = FALSE
  /\ ev = Event("constructor", 0, 0)
  /\ moves = 0
  /\ drops = 0
  /\ unreported = FALSE

----------------------------------------------------------------------------
(* Array helpers *)

\* Array.prototype.findIndex, given the callback's verdict on each element: the
\* 0-based index of the first element it accepts, or -1
FindIndex(verdicts) ==
  LET S == {i \in 1..Len(verdicts) : verdicts[i]}
  IN  IF S = {} THEN NotFound ELSE (CHOOSE i \in S : \A j \in S : i <= j) - 1

\* Array.prototype.splice(k, 1) with a 0-based k
Splice(arr, k) ==
  [i \in 1..(Len(arr) - 1) |-> IF i <= k THEN arr[i] ELSE arr[i + 1]]

\* arr[k] is an element (not undefined), for a 0-based k
Defined(arr, k) == k >= 0 /\ k < Len(arr)

----------------------------------------------------------------------------
(* Hit tests of onMouseDown *)

inCloseButtonBounds(img, px, py) ==
  LET bx == Sub(Add(img.x, img.width), Number(closeButtonSize))
      by == img.y
      bw == Number(closeButtonSize)
      bh == Number(closeButtonSize)
  IN  /\ Ge(px, bx) /\ Le(px, Add(bx, bw))
      /\ Ge(py, by) /\ Le(py, Add(by, bh))

inImageBounds(img, px, py) ==
  /\ Ge(px, img.x) /\ Le(px, Add(img.x, img.width))
  /\ Ge(py, img.y) /\ Le(py, Add(img.y, img.height))

inResizeBounds(img, px, py) ==
  /\ Ge(px, Sub(Add(img.x, img.width), Number(resizeHandleSize)))
  /\ Le(px, Add(img.x, img.width))
  /\ Ge(py, Sub(Add(img.y, img.height), Number(resizeHandleSize)))
  /\ Le(py, Add(img.y, img.height))

\* closeIndex with the last match winning instead of the first
closeIndexLast(imgs, px, py) ==
  LET S == {i \in 1..Len(imgs) : inCloseButtonBounds(imgs[i], px, py)}
  IN  IF S = {} THEN NotFound ELSE (CHOOSE i \in S : \A j \in S : i >= j) - 1

\* closeIndex with the close test lost: nothing ever matches
closeIndexSkipped(imgs, px, py) == NotFound

\* the first findIndex of onMouseDown
closeIndex(imgs, px, py) ==
  FindIndex([i \in 1..Len(imgs) |-> inCloseButtonBounds(imgs[i], px, py)])

\* bodyIndex with the last match, the image drawn on top, winning
bodyIndexLast(imgs, px, py) ==
  LET S == {i \in 1..Len(imgs) : inImageBounds(imgs[i], px, py)}
  IN  IF S = {} THEN NotFound ELSE (CHOOSE i \in S : \A j \in S : i >= j) - 1

\* the second findIndex of onMouseDown: its result ...
bodyIndex(imgs, px, py) ==
  FindIndex([i \in 1..Len(imgs) |-> inImageBounds(imgs[i], px, py)])

\* ... what its callback does to an image it is called on ...
startResize(img, px, py) ==
  IF inResizeBounds(img, px, py)
  THEN [img EXCEPT !.isResizing = TRUE,
                   !.initialWidth = img.width,
                   !.initialHeight = img.height]
  ELSE img

\* ... and the registry after it: findIndex calls the callback on every image
\* up to and including the first match, on all of them when there is none
afterBodySearch(imgs, px, py) ==
  LET k == bodyIndex(imgs, px, py)
  IN  [i \in 1..Len(imgs) |->
         IF k = NotFound \/ i - 1 <= k THEN startResize(imgs[i], px, py)
         ELSE imgs[i]]

----------------------------------------------------------------------------
(* Geometry of onMouseMove *)

\* resized with the aspect ratio taken from the current size, not the snapshot
resizedCurrentRatio(img, px, py, shift) ==
  LET aspectRatio == Div(img.width, img.height)
      newWidth == MathMax(Number(MinSize),
                    Add(OrZero(img.initialWidth),
                        Sub(Sub(px, img.x), OrZero(img.initialWidth))))
      freeHeight == MathMax(Number(MinSize),
                      Add(OrZero(img.initialHeight),
                          Sub(Sub(py, img.y), OrZero(img.initialHeight))))
  IN  IF shift
      THEN [img EXCEPT !.width = newWidth, !.height = Div(newWidth, aspectRatio)]
      ELSE [img EXCEPT !.width = newWidth, !.height = freeHeight]

\* resized with the snapshot overwritten by the size each move produces
resizedResnapshots(img, px, py, shift) ==
  LET newWidth == MathMax(Number(MinSize),
                    Add(OrZero(img.initialWidth),
                        Sub(Sub(px, img.x), OrZero(img.initialWidth))))
      freeHeight == MathMax(Number(MinSize),
                      Add(OrZero(img.initialHeight),
                          Sub(Sub(py, img.y), OrZero(img.initialHeight))))
      newHeight == IF shift
                   THEN Div(newWidth, Div(img.initialWidth, img.initialHeight))
                   ELSE freeHeight
  IN  [img EXCEPT !.width = newWidth, !.height = newHeight,
                  !.initialWidth = newWidth, !.initialHeight = newHeight]

\* the isResizing branch
resized(img, px, py, shift) ==
  LET aspectRatio == Div(img.initialWidth, img.initialHeight)
      newWidth == MathMax(Number(MinSize),
                    Add(OrZero(img.initialWidth),
                        Sub(Sub(px, img.x), OrZero(img.initialWidth))))
      freeHeight == MathMax(Number(MinSize),
                      Add(OrZero(img.initialHeight),
                          Sub(Sub(py, img.y), OrZero(img.initialHeight))))
  IN  IF shift
      THEN [img EXCEPT !.width = newWidth, !.height = Div(newWidth, aspectRatio)]
      ELSE [img EXCEPT !.width = newWidth, !.height = freeHeight]

\* the isDragging branch
dragged(img, px, py, offX, offY) ==
  [img EXCEPT
     !.x = MathMin(MathMax(Number(0), Sub(px, offX)), Sub(Number(width), img.width)),
     !.y = MathMin(MathMax(Number(0), Sub(py, offY)), Sub(Number(height), img.height))]

moved(img, px, py, shift, dragging, offX, offY) ==
  IF img.isResizing THEN resized(img, px, py, shift)
  ELSE IF dragging THEN dragged(img, px, py, offX, offY)
  ELSE img

----------------------------------------------------------------------------
(* Handlers *)

\* resetInteractions without its forEach: isResizing is left as it was
resetImagesKept(imgs) == imgs

\* resetInteractions: what it leaves of the registry
resetImages(imgs) == [i \in 1..Len(imgs) |-> [imgs[i] EXCEPT !.isResizing = FALSE]]

\* ngOnChanges without the reset of the selection and the dragging flag
ngOnChangesKeepsSelection ==
  /\ editing' = ~editing
  /\ images' = resetImages(images)
  /\ imagesChange' = <<>>
  /\ error' = FALSE
  /\ ev' = Event("ngOnChanges", 0, 0)
  /\ unreported' = FALSE
  /\ UNCHANGED <<selectedImageIndex, isDragging, offsetX, offsetY,
                 isShiftPressed, pending, moves, drops>>

\* ngOnChanges with changes['editing']: the host flipped the editing input
ngOnChanges ==
  /\ editing' = ~editing
  /\ selectedImageIndex' = null
  /\ isDragging' = FALSE
  /\ images' = resetImages(images)
  /\ imagesChange' = <<>>
  /\ error' = FALSE
  /\ ev' = Event("ngOnChanges", 0, 0)
  /\ unreported' = FALSE
  /\ UNCHANGED <<offsetX, offsetY, isShiftPressed, pending, moves, drops>>

\* the image img.onload builds from the decoded file f; n names the Image object
dropped(n, f) ==
  [img |-> n,
   x |-> Number(0),
   y |-> Number(0),
   width |-> IF naturalWidth(f) <= width THEN Number(naturalWidth(f))
             ELSE Number(FallbackWidth),
   height |-> IF naturalHeight(f) <= height THEN Number(naturalHeight(f))
              ELSE Mul(Div(Number(naturalHeight(f)), Number(naturalWidth(f))),
                       Number(FallbackWidth)),
   isResizing |-> FALSE,
   initialWidth |-> undefined,
   initialHeight |-> undefined]

\* onDrop, up to reader.readAsDataURL(file)
onDrop(payload) ==
  /\ payload \notin {"noDataTransfer", "noFiles"} => drops < MaxDrops
  /\ ev' = [op |-> "onDrop", offsetX |-> 0, offsetY |-> 0, dataTransfer |-> payload]
  /\ imagesChange' = <<>>
  /\ IF ~editing \/ payload = "noDataTransfer"
     THEN /\ error' = FALSE
          /\ UNCHANGED <<pending, drops>>
     ELSE IF payload = "noFiles"
     THEN \* files[0] is undefined and readAsDataURL(undefined) throws
          /\ error' = TRUE
          /\ UNCHANGED <<pending, drops>>
     ELSE /\ error' = FALSE
          /\ pending' = Append(pending, [img |-> drops + 1, file |-> payload])
          /\ drops' = drops + 1
  /\ UNCHANGED <<editing, images, selectedImageIndex, offsetX, offsetY,
                 isDragging, isShiftPressed, moves, unreported>>

\* img.onload with the new image put first (unshift) instead of last (push)
imgOnloadUnshifts(i) ==
  /\ i \in 1..Len(pending)
  /\ images' = <<dropped(pending[i].img, pending[i].file)>> \o images
  /\ pending' = Splice(pending, i - 1)
  /\ imagesChange' = <<images'>>
  /\ unreported' = FALSE
  /\ error' = FALSE
  /\ ev' = Event("img.onload", 0, 0)
  /\ UNCHANGED <<editing, selectedImageIndex, offsetX, offsetY, isDragging,
                 isShiftPressed, moves, drops>>

\* img.onload testing the editing flag again: a decode that completes while
\* editing is disabled is discarded
imgOnloadChecksEditing(i) ==
  /\ i \in 1..Len(pending)
  /\ images' = IF editing
               THEN Append(images, dropped(pending[i].img, pending[i].file))
               ELSE images
  /\ pending' = Splice(pending, i - 1)
  /\ imagesChange' = IF editing THEN <<images'>> ELSE <<>>
  /\ unreported' = FALSE
  /\ error' = FALSE
  /\ ev' = Event("img.onload", 0, 0)
  /\ UNCHANGED <<editing, selectedImageIndex, offsetX, offsetY, isDragging,
                 isShiftPressed, moves, drops>>

\* img.onload of a pending drop: the decode completed
imgOnload(i) ==
  /\ i \in 1..Len(pending)
  /\ images' = Append(images, dropped(pending[i].img, pending[i].file))
  /\ pending' = Splice(pending, i - 1)
  /\ imagesChange' = <<images'>>
  /\ unreported' = FALSE
  /\ error' = FALSE
  /\ ev' = Event("img.onload", 0, 0)
  /\ UNCHANGED <<editing, selectedImageIndex, offsetX, offsetY, isDragging,
                 isShiftPressed, moves, drops>>

onMouseDown(px, py) ==
  LET X == Number(px)
      Y == Number(py)
      c == closeIndex(images, X, Y)
      k == bodyIndex(images, X, Y)
  IN
  /\ ev' = Event("onMouseDown", px, py)
  /\ error' = FALSE
  /\ IF ~editing
     THEN /\ imagesChange' = <<>>
          /\ UNCHANGED <<images, selectedImageIndex, offsetX, offsetY,
                         isDragging>>
     ELSE IF c # NotFound
     THEN /\ images' = Splice(images, c)
          /\ selectedImageIndex' = null
          /\ imagesChange' = <<images'>>
          /\ UNCHANGED <<offsetX, offsetY, isDragging>>
     ELSE /\ images' = afterBodySearch(images, X, Y)
          /\ selectedImageIndex' = k
          /\ imagesChange' = <<>>
          /\ IF k # NotFound
             THEN /\ offsetX' = Sub(X, images[k + 1].x)
                  /\ offsetY' = Sub(Y, images[k + 1].y)
                  /\ isDragging' = TRUE
             ELSE UNCHANGED <<offsetX, offsetY, isDragging>>
  /\ unreported' = FALSE
  /\ UNCHANGED <<editing, isShiftPressed, pending, moves, drops>>

onMouseMove(px, py) ==
  /\ moves < MaxMoves
  /\ moves' = moves + 1
  /\ ev' = Event("onMouseMove", px, py)
  /\ imagesChange' = <<>>
  /\ IF selectedImageIndex = null
     THEN /\ error' = FALSE
          /\ UNCHANGED <<images, unreported>>
     ELSE IF ~Defined(images, selectedImageIndex)
     THEN \* img is undefined and img.isResizing throws
          /\ error' = TRUE
          /\ UNCHANGED <<images, unreported>>
     ELSE /\ error' = FALSE
          /\ images' = [images EXCEPT ![selectedImageIndex + 1] =
                          moved(@, Number(px), Number(py), isShiftPressed,
                                isDragging, offsetX, offsetY)]
          /\ unreported' = (unreported \/ images' # images)
  /\ UNCHANGED <<editing, selectedImageIndex, offsetX, offsetY, isDragging,
                 isShiftPressed, pending, drops>>

\* onMouseUp with an emission when it ends a gesture
onMouseUpEmits ==
  /\ ev' = Event("onMouseUp", 0, 0)
  /\ IF selectedImageIndex # null /\ ~Defined(images, selectedImageIndex)
     THEN /\ error' = TRUE
          /\ UNCHANGED <<images, selectedImageIndex, isDragging>>
     ELSE /\ error' = FALSE
          /\ images' = IF selectedImageIndex = null THEN images
                       ELSE [images EXCEPT ![selectedImageIndex + 1].isResizing = FALSE]
          /\ selectedImageIndex' = null
          /\ isDragging' = FALSE
  /\ imagesChange' = IF Defined(images, selectedImageIndex) THEN <<images'>> ELSE <<>>
  /\ UNCHANGED <<editing, offsetX, offsetY, isShiftPressed, pending, moves,
                 drops, unreported>>

onMouseUp ==
  /\ ev' = Event("onMouseUp", 0, 0)
  /\ imagesChange' = <<>>
  /\ IF selectedImageIndex # null /\ ~Defined(images, selectedImageIndex)
     THEN \* img is undefined and img.isResizing = false throws
          /\ error' = TRUE
          /\ UNCHANGED <<images, selectedImageIndex, isDragging>>
     ELSE /\ error' = FALSE
          /\ images' = IF selectedImageIndex = null THEN images
                       ELSE [images EXCEPT ![selectedImageIndex + 1].isResizing = FALSE]
          /\ selectedImageIndex' = null
          /\ isDragging' = FALSE
  /\ UNCHANGED <<editing, offsetX, offsetY, isShiftPressed, pending, moves,
                 drops, unreported>>

onKeyDown(key) ==
  /\ isShiftPressed' = (IF key = "Shift" THEN TRUE ELSE isShiftPressed)
  /\ ev' = Event("onKeyDown", 0, 0)
  /\ imagesChange' = <<>>
  /\ error' = FALSE
  /\ UNCHANGED <<editing, images, selectedImageIndex, offsetX, offsetY,
                 isDragging, pending, moves, drops, unreported>>

onKeyUp(key) ==
  /\ isShiftPressed' = (IF key = "Shift" THEN FALSE ELSE isShiftPressed)
  /\ ev' = Event("onKeyUp", 0, 0)
  /\ imagesChange' = <<>>
  /\ error' = FALSE
  /\ UNCHANGED <<editing, images, selectedImageIndex, offsetX, offsetY,
                 isDragging, pending, moves, drops, unreported>>

\* setImages adding its argument to the registry instead of replacing it
setImagesAppends(arr) ==
  /\ images' = images \o arr
  /\ ev' = [op |-> "setImages", offsetX |-> 0, offsetY |-> 0, images |-> arr]
  /\ imagesChange' = <<>>
  /\ error' = FALSE
  /\ UNCHANGED <<editing, selectedImageIndex, offsetX, offsetY, isDragging,
                 isShiftPressed, pending, moves, drops, unreported>>

\* setImages(images): the registry is replaced and redrawn
setImages(arr) ==
  /\ images' = arr
  /\ ev' = [op |-> "setImages", offsetX |-> 0, offsetY |-> 0, images |-> arr]
  /\ imagesChange' = <<>>
  /\ error' = FALSE
  /\ UNCHANGED <<editing, selectedImageIndex, offsetX, offsetY, isDragging,
                 isShiftPressed, pending, moves, drops, unreported>>

\* getImages(): the registry itself is returned, nothing is written
getImages ==
  /\ ev' = [op |-> "getImages", offsetX |-> 0, offsetY |-> 0, returned |-> images]
  /\ imagesChange' = <<>>
  /\ error' = FALSE
  /\ UNCHANGED <<editing, images, selectedImageIndex, offsetX, offsetY, isDragging,
                 isShiftPressed, pending, moves, drops, unreported>>

Next ==
  \/ ngOnChanges
  \/ \E payload \in DropPayloads : onDrop(payload)
  \/ \E i \in 1..MaxDrops : imgOnload(i)
  \/ \E p \in Pointers : onMouseDown(p[1], p[2])
  \/ \E p \in MoveTargets : onMouseMove(p[1], p[2])
  \/ onMouseUp
  \/ \E key \in Keys : onKeyDown(key)
  \/ \E key \in Keys : onKeyUp(key)
  \/ \E arr \in HostArrays : setImages(arr)
  \/ getImages

Spec == Init /\ [][Next]_vars

\* drops and their decodes alone, over the larger set of files
NextPlacement ==
  \/ \E f \in PlacementFiles : onDrop(f)
  \/ \E i \in 1..MaxDrops : imgOnload(i)

SpecPlacement == Init /\ [][NextPlacement]_vars

----------------------------------------------------------------------------
(* Properties *)

\* the rectangle [left, left + w] x [top, top + h] holds the event's position
InRect(e, left, top, w, h) ==
  /\ Le(left, Number(e.offsetX)) /\ Le(Number(e.offsetX), Add(left, w))
  /\ Le(top, Number(e.offsetY)) /\ Le(Number(e.offsetY), Add(top, h))

\* the close-affordance bounds [x+width-closeButtonSize, x+width] by
\* [y, y+closeButtonSize] of img hold the event's position
OnCloseButton(img, e) ==
  InRect(e, Sub(Add(img.x, img.width), Number(closeButtonSize)), img.y,
         Number(closeButtonSize), Number(closeButtonSize))

OnBody(img, e) == InRect(e, img.x, img.y, img.width, img.height)

CloseHits(imgs, e) == {i \in 1..Len(imgs) : OnCloseButton(imgs[i], e)}

\* the selected image, when the selection names one
HasSelected == Defined(images, selectedImageIndex)
Selected == images[selectedImageIndex + 1]

Resizing == {i \in 1..Len(images) : images[i].isResizing}

\* C1: with editing enabled, a pointer-down inside at least one image's close
\* bounds removes exactly the lowest-index image whose close bounds hold the
\* pointer; the other entries keep their fields and their relative order.
C1_DeleteRemovesLowestHit ==
  [][ (editing /\ ev'.op = "onMouseDown" /\ CloseHits(images, ev') # {}) =>
        LET H == CloseHits(images, ev')
            m == CHOOSE i \in H : \A j \in H : i <= j
        IN  /\ Len(images') = Len(images) - 1
            /\ \A i \in 1..Len(images') :
                 images'[i] = IF i < m THEN images[i] ELSE images[i + 1] ]_vars

\* a pointer-down deleted the first of two images whose close bounds both held
\* the pointer: the survivor's still do
C1_Witness ==
  /\ ev.op = "onMouseDown"
  /\ imagesChange # <<>>
  /\ Len(images) = 1
  /\ images[1].img = 2
  /\ OnCloseButton(images[1], ev)

\* C2: a pointer-down (editing enabled) inside any image's close bounds starts
\* no drag and no resize, whatever else the point lies in: afterwards nothing
\* is selected, the dragging flag and the offsets are as before, and every
\* remaining entry is an entry of the registry before the event, with
\* isResizing, initialWidth and initialHeight as they were.
C2_CloseHitStartsNoGesture ==
  [][ (editing /\ ev'.op = "onMouseDown" /\ CloseHits(images, ev') # {}) =>
        /\ selectedImageIndex' = null
        /\ isDragging' = isDragging
        /\ offsetX' = offsetX /\ offsetY' = offsetY
        /\ \A j \in 1..Len(images') : \E i \in 1..Len(images) :
             images'[j] = images[i] ]_vars

\* a pointer-down deleted an image at a point that also lies in the body of an
\* image that stayed, which was not selected
C2_Witness ==
  /\ ev.op = "onMouseDown"
  /\ imagesChange # <<>>
  /\ selectedImageIndex = null
  /\ \E i \in 1..Len(images) : OnBody(images[i], ev) /\ ~images[i].isResizing

\* C3: while editing is disabled, pointer-down, pointer-move and pointer-up
\* leave the registry, the selection and the dragging flag unchanged.
C3_DisabledPointerNoOp ==
  [][ (~editing /\ ev'.op \in {"onMouseDown", "onMouseMove", "onMouseUp"}) =>
        /\ images' = images
        /\ selectedImageIndex' = selectedImageIndex
        /\ isDragging' = isDragging ]_vars

\* a pointer-move was processed with editing disabled and an image under it
C3_Witness ==
  /\ ~editing
  /\ ev.op = "onMouseMove"
  /\ \E i \in 1..Len(images) : OnBody(images[i], ev)

\* C4: after a pointer-move processed while an image is being dragged, the
\* dragged image has 0 <= x <= surfaceWidth - width and
\* 0 <= y <= surfaceHeight - height.
C4_DragStaysOnSurface ==
  (ev.op = "onMouseMove" /\ HasSelected /\ isDragging /\ ~Selected.isResizing) =>
    /\ Le(Number(0), Selected.x)
    /\ Le(Selected.x, Sub(Number(width), Selected.width))
    /\ Le(Number(0), Selected.y)
    /\ Le(Selected.y, Sub(Number(height), Selected.height))

\* C5: after a pointer-move processed during a resize gesture, with or
\* without Shift, the resized image has width >= 10 and height >= 10.
C5_ResizeKeepsMinimum ==
  (ev.op = "onMouseMove" /\ HasSelected /\ Selected.isResizing) =>
    /\ Ge(Selected.width, Number(MinSize))
    /\ Ge(Selected.height, Number(MinSize))

\* C6: after a pointer-move processed during a resize gesture with Shift
\* held, width * initialHeight = height * initialWidth, the snapshot being
\* the one taken when the gesture started.
C6_ShiftKeepsSnapshotRatio ==
  (ev.op = "onMouseMove" /\ isShiftPressed /\ HasSelected /\ Selected.isResizing) =>
    Mul(Selected.width, Selected.initialHeight) =
      Mul(Selected.height, Selected.initialWidth)

\* a Shift resize changed the size of an image
C6_Witness ==
  /\ ev.op = "onMouseMove" /\ isShiftPressed
  /\ HasSelected /\ Selected.isResizing
  /\ Selected.width # Selected.initialWidth
  /\ Selected.height # Selected.initialHeight

C8_GestureChangesAreEmitted ==
  ev.op = "onMouseUp" => ~unreported

\* C9: a change of the editing flag leaves no selection, the dragging flag
\* false and isResizing false on every image, and changes no image's
\* position or size.
C9_ToggleResets ==
  [][ editing' # editing =>
        /\ selectedImageIndex' = null
        /\ isDragging' = FALSE
        /\ Len(images') = Len(images)
        /\ \A i \in 1..Len(images') :
             /\ images'[i].isResizing = FALSE
             /\ images'[i].x = images[i].x /\ images'[i].y = images[i].y
             /\ images'[i].width = images[i].width
             /\ images'[i].height = images[i].height ]_vars

\* editing was toggled after a resize had changed an image's size
C9_Witness ==
  /\ ev.op = "ngOnChanges"
  /\ \E i \in 1..Len(images) :
       /\ images[i].initialWidth # undefined
       /\ images[i].width # images[i].initialWidth

\* C10: in every reachable state at most one image has isResizing = true.
C10_AtMostOneResizing ==
  Cardinality(Resizing) <= 1

----------------------------------------------------------------------------
(* Properties of pointer-up, of unmatched pointer-downs and of drops *)

OnResizeHandle(img, e) ==
  InRect(e, Sub(Add(img.x, img.width), Number(resizeHandleSize)),
         Sub(Add(img.y, img.height), Number(resizeHandleSize)),
         Number(resizeHandleSize), Number(resizeHandleSize))

BodyHits(imgs, e) == {i \in 1..Len(imgs) : OnBody(imgs[i], e)}

\* C11: a pointer-up processed in any reachable state leaves no image
\* selected, the dragging flag false and the image that was selected (if any)
\* with isResizing = false; it raises no error and emits no notification.
C11_PointerUpReturnsToIdle ==
  [][ ev'.op = "onMouseUp" =>
        /\ selectedImageIndex' = null
        /\ isDragging' = FALSE
        /\ error' = FALSE
        /\ imagesChange' = <<>>
        /\ HasSelected =>
             /\ Len(images') = Len(images)
             /\ images'[selectedImageIndex + 1].isResizing = FALSE ]_vars

\* C12: a pointer-down (editing enabled) in no image's close bounds and in no
\* image's body leaves the registry as it was and selects no image, and the
\* pointer-move that follows it alters no image and raises no error.
C12_MissedPointerDownSelectsNothing ==
  [][ /\ ( /\ editing /\ ev'.op = "onMouseDown"
           /\ CloseHits(images, ev') = {} /\ BodyHits(images, ev') = {} ) =>
             /\ images' = images
             /\ ~HasSelected'
      /\ ( /\ editing /\ ev.op = "onMouseDown"
           /\ CloseHits(images, ev) = {} /\ BodyHits(images, ev) = {}
           /\ ev'.op = "onMouseMove" ) =>
             /\ images' = images
             /\ error' = FALSE ]_vars

\* C13: a drop event that carries no file (no dataTransfer, or an empty file
\* list) changes neither the registry nor the selection nor the dragging flag,
\* emits nothing, leaves no decode pending and raises no error.
C13_DropWithoutFileIsIgnored ==
  [][ (ev'.op = "onDrop" /\ ev'.dataTransfer \in {"noDataTransfer", "noFiles"}) =>
        /\ images' = images
        /\ selectedImageIndex' = selectedImageIndex
        /\ isDragging' = isDragging
        /\ imagesChange' = <<>>
        /\ pending' = pending
        /\ error' = FALSE ]_vars

\* C14: when a drop's decode completes, the new image is at (0,0); its width
\* is the original width if that is <= the surface width, else 100; its height
\* is originalHeight/originalWidth * 100 whenever the fallback width 100 is
\* used, and the original height when the original fits the surface.
C14_DropPlacement ==
  [][ ev'.op = "img.onload" =>
        \E i \in 1..Len(pending) :
          /\ pending' = Splice(pending, i - 1)
          /\ LET W == naturalWidth(pending[i].file)
                 H == naturalHeight(pending[i].file)
                 new == images'[Len(images')]
             IN  /\ new.x = Number(0) /\ new.y = Number(0)
                 /\ new.width = IF W <= width THEN Number(W) ELSE Number(FallbackWidth)
                 /\ W > width =>
                      new.height = Mul(Div(Number(H), Number(W)), Number(FallbackWidth))
                 /\ (W <= width /\ H <= height) => new.height = Number(H) ]_vars

----------------------------------------------------------------------------
(* Properties of decode completion, of the surface and of the snapshot *)

\* C15: whenever a drop's decode completes, the new image is appended at the
\* end of the registry as it is at that moment, every existing entry keeps its
\* place and its fields, and a gesture in progress keeps its selected image,
\* its dragging flag and its offsets.
C15_DecodeAppendsToCurrentRegistry ==
  [][ ev'.op = "img.onload" =>
        /\ Len(images') = Len(images) + 1
        /\ \A i \in 1..Len(images) : images'[i] = images[i]
        /\ \E i \in 1..Len(pending) :
             images'[Len(images')] = dropped(pending[i].img, pending[i].file)
        /\ selectedImageIndex' = selectedImageIndex
        /\ isDragging' = isDragging
        /\ offsetX' = offsetX /\ offsetY' = offsetY ]_vars

\* a decode completed during a gesture whose image had been dragged away from
\* the origin: the new image is last, behind the selected one
C15_Witness ==
  /\ ev.op = "img.onload"
  /\ HasSelected /\ isDragging
  /\ selectedImageIndex + 1 < Len(images)
  /\ Selected.x # Number(0)
  /\ images[Len(images)].x = Number(0)

\* C16: in every reachable state every image of the registry has its bounding
\* box inside the surface: 0 <= x, x + width <= surfaceWidth, 0 <= y and
\* y + height <= surfaceHeight.
C16_ImagesInsideSurface ==
  \A i \in 1..Len(images) :
    /\ Le(Number(0), images[i].x)
    /\ Le(Add(images[i].x, images[i].width), Number(width))
    /\ Le(Number(0), images[i].y)
    /\ Le(Add(images[i].y, images[i].height), Number(height))

\* C17: an image with isResizing = true has initialWidth and initialHeight
\* defined, and no step other than a pointer-down (or the host replacing the
\* registry) starts a resize or changes the snapshot of an image that is
\* resizing: pointer-moves leave it as the pointer-down took it.
C17_SnapshotDefinedAndFrozen ==
  [][ \A i \in 1..Len(images') :
        images'[i].isResizing =>
          /\ images'[i].initialWidth # undefined
          /\ images'[i].initialHeight # undefined
          /\ ev'.op \notin {"onMouseDown", "setImages"} =>
               /\ i <= Len(images)
               /\ images[i].isResizing
               /\ images'[i].initialWidth = images[i].initialWidth
               /\ images'[i].initialHeight = images[i].initialHeight ]_vars

\* a pointer-move without Shift resized an image away from its snapshot
C17_Witness ==
  /\ ev.op = "onMouseMove" /\ ~isShiftPressed
  /\ HasSelected /\ Selected.isResizing
  /\ Selected.initialWidth # undefined
  /\ Selected.width # Selected.initialWidth

----------------------------------------------------------------------------
(* Properties of the host's methods and of the kind of gesture *)

\* C18: setImages(seq) replaces the whole registry with seq and emits nothing;
\* getImages returns the registry and changes no state, so that a getImages
\* that follows a setImages(seq) returns exactly seq.
C18_SetThenGetImages ==
  [][ /\ ev'.op = "setImages" =>
           /\ images' = ev'.images
           /\ imagesChange' = <<>>
      /\ ev'.op = "getImages" =>
           /\ ev'.returned = images
           /\ imagesChange' = <<>>
           /\ UNCHANGED <<editing, images, selectedImageIndex, offsetX, offsetY,
                          isDragging, isShiftPressed, pending>>
      /\ (ev.op = "setImages" /\ ev'.op = "getImages") =>
           ev'.returned = ev.images ]_vars

\* getImages returned the array the host had set, while a gesture that began
\* on another registry was still in progress
C18_Witness ==
  /\ ev.op = "getImages"
  /\ ev.returned = <<hostImage>>
  /\ isDragging

\* C19: a pointer-down that selects an image marks it resizing exactly when
\* the pointer is inside its resize handle; a pointer-move changes only the
\* width and height of a selected image that is resizing and only the x and y
\* of one that is not, and changes no other image of the registry.
C19_GestureKindFollowsPointerDown ==
  [][ /\ ( /\ editing /\ ev'.op = "onMouseDown"
           /\ CloseHits(images, ev') = {} /\ BodyHits(images, ev') # {} ) =>
             /\ HasSelected'
             /\ Selected'.isResizing <=>
                  OnResizeHandle(images[selectedImageIndex' + 1], ev')
      /\ (ev'.op = "onMouseMove" /\ HasSelected) =>
           LET k == selectedImageIndex + 1
           IN  /\ Len(images') = Len(images)
               /\ \A i \in 1..Len(images) : i # k => images'[i] = images[i]
               /\ images'[k] = [images[k] EXCEPT !.x = images'[k].x,
                                                 !.y = images'[k].y,
                                                 !.width = images'[k].width,
                                                 !.height = images'[k].height]
               /\ images[k].isResizing =>
                    images'[k].x = images[k].x /\ images'[k].y = images[k].y
               /\ ~images[k].isResizing =>
                    /\ images'[k].width = images[k].width
                    /\ images'[k].height = images[k].height ]_vars

\* C20: a pointer-down (editing enabled, no close hit) inside the body of one
\* or more images selects the one with the lowest index, and leaves every
\* image with a higher index as it was.
C20_LowestBodyHitSelected ==
  [][ ( /\ editing /\ ev'.op = "onMouseDown"
        /\ CloseHits(images, ev') = {} /\ BodyHits(images, ev') # {} ) =>
          LET H == BodyHits(images, ev')
              m == CHOOSE i \in H : \A j \in H : i <= j
          IN  /\ selectedImageIndex' = m - 1
              /\ Len(images') = Len(images)
              /\ \A i \in 1..Len(images) : i > m => images'[i] = images[i] ]_vars

\* a pointer-down on the resize handles of two overlapping images selected the
\* lower one and left the upper one not resizing
C20_Witness ==
  /\ ev.op = "onMouseDown"
  /\ selectedImageIndex = 0 /\ Len(images) = 2
  /\ OnResizeHandle(images[1], ev) /\ images[1].isResizing
  /\ OnResizeHandle(images[2], ev) /\ ~images[2].isResizing

----------------------------------------------------------------------------
(* Properties of the selection and of the editing flag during a decode *)

\* C21: in every reachable state the selection is empty or an index of the
\* current registry (0 <= index < number of images).
C21_SelectionIsValidIndex ==
  selectedImageIndex = null \/ HasSelected

\* C22: in every reachable state every image with isResizing = true is the
\* selected image: no unselected image carries isResizing = true.
C22_OnlySelectedImageResizes ==
  \A i \in Resizing : selectedImageIndex = i - 1

\* C23: the editing flag is read when a drop arrives and not when its decode
\* completes. A drop starts a decode exactly when editing is enabled and it
\* carries a file, and adds no image itself; nothing but a decode's completion
\* ends a pending decode; and a completing decode appends its image and emits
\* the registry whatever the editing flag is by then.
C23_EditingReadAtDropOnly ==
  [][ /\ ev'.op = "onDrop" =>
           /\ images' = images
           /\ imagesChange' = <<>>
           /\ IF editing /\ ev'.dataTransfer \notin {"noDataTransfer", "noFiles"}
              THEN /\ Len(pending') = Len(pending) + 1
                   /\ \A i \in 1..Len(pending) : pending'[i] = pending[i]
                   /\ pending'[Len(pending')].file = ev'.dataTransfer
              ELSE pending' = pending
      /\ ev'.op = "img.onload" =>
           \E i \in 1..Len(pending) :
             /\ pending' = Splice(pending, i - 1)
             /\ images' = Append(images, dropped(pending[i].img, pending[i].file))
             /\ imagesChange' = <<images'>>
      /\ ev'.op \notin {"onDrop", "img.onload"} => pending' = pending ]_vars

\* a decode completed, appended its image and emitted while editing was
\* disabled: the flag was switched off after the drop had been accepted
C23_Witness ==
  /\ ~editing
  /\ ev.op = "img.onload"
  /\ Len(images) > 0
  /\ imagesChange = <<images>>

====
